---- MODULE Spec2Model ----
(***************************************************************************)
(* JniInvocation (libnativehelper): selection of the VM library name,      *)
(* dlopen with one fallback, resolution of the three JNI invocation        *)
(* symbols, the forwarding calls and the process-wide singleton slot.      *)
(*                                                                         *)
(* A C string pointer is a record [storage, name]: where the characters    *)
(* live ("null", "caller", "static", or "local" for GetLibrary's stack     *)
(* buffer default_library) and what they are.  A library handle is the     *)
(* index of one successful dlopen in libs, the dynamic loader's record of  *)
(* what was opened and how often it was closed; NULL is 0.  A function     *)
(* pointer is [lib, sym]: the handle and the symbol it was resolved from.  *)
(***************************************************************************)
EXTENDS Integers, Sequences, FiniteSets, TLC

\* Bounds of the model: the addresses an object can be constructed at, and the
\* successful dlopen calls of a run.
MaxInstances == 2
MaxHandles == 2

NULL == 0

kLibrarySystemProperty == "persist.sys.dalvik.vm.lib.2"
kDebuggableSystemProperty == "ro.debuggable"
kDebuggableFallback_Debuggable == "1"
kDebuggableFallback == "0"
kLibraryFallback == "libart.so"

\* The three symbols, and the field each is stored in.
Symbols == <<"JNI_GetDefaultJavaVMInitArgs", "JNI_CreateJavaVM", "JNI_GetCreatedJavaVMs">>
Slots == <<"JNI_GetDefaultJavaVMInitArgs_", "JNI_CreateJavaVM_", "JNI_GetCreatedJavaVMs_">>

NullString == [storage |-> "null", name |-> ""]
CallerString(s) == [storage |-> "caller", name |-> s]
StaticString(s) == [storage |-> "static", name |-> s]
LocalBuffer(s) == [storage |-> "local", name |-> s]

NullFn == [lib |-> NULL, sym |-> ""]

\* The member initialisers of the constructor.
NewObject ==
  [handle_ |-> NULL,
   JNI_GetDefaultJavaVMInitArgs_ |-> NullFn,
   JNI_CreateJavaVM_ |-> NullFn,
   JNI_GetCreatedJavaVMs_ |-> NullFn]

\* Inputs of the model.
Instances == 1..MaxInstances
DebuggableValues == {"", "0", "1"}
LibraryValues == {"", "libfoo.so"}
Garbage == "\\177garbage"
Requests ==
  {NullString, CallerString("custom.so"), CallerString("libart.so"), CallerString("")}

\* Outcomes of the calls Init makes: dlsym is not called again after a failed
\* lookup, and dlopen is not called again after a successful open.
LookupOutcomes ==
  {<<TRUE, TRUE, TRUE>>, <<TRUE, TRUE, FALSE>>, <<TRUE, FALSE, FALSE>>,
   <<FALSE, FALSE, FALSE>>}
SecondOpenOutcomes(open1) == IF open1 THEN {FALSE} ELSE BOOLEAN

VARIABLES
  have_android_os,   \* the build: is HAVE_ANDROID_OS defined
  properties,        \* the system property store; "" is an unset key
  proc,              \* "running", "aborted" (fatal log) or "crashed"
  jni_invocation_,   \* the static JniInvocation::jni_invocation_
  live,              \* the addresses at which an object is alive
  objects,           \* the fields of the object at each address
  libs,              \* the dynamic loader: one record per successful dlopen
  call               \* what the last operation was given, did and returned

vars ==
  <<have_android_os, properties, proc, jni_invocation_, live,
    objects, libs, call>>

NoCall ==
  [op |-> "none", self |-> NULL, slot0 |-> NULL, requested |-> NullString,
   resolved |-> NullString, attempts |-> <<>>, opened |-> <<>>,
   compared |-> <<>>, lookups |-> <<>>, closed |-> NULL, ret |-> FALSE,
   target |-> NullFn, passed |-> <<>>, returned |-> "", status |-> "",
   after |-> ""]

\* How an Init ended: it returned false, it returned true after falling back
\* to libart.so, or it returned true at once.
Ending(last) ==
  IF ~last.ret THEN "Init false"
  ELSE IF last.opened = <<FALSE, TRUE>> THEN "Init true by fallback"
  ELSE "Init true"

\* Whether the operation before this one, an operation on the object at self,
\* was an Init of that object that ended the given way.
After(last, self, ending) ==
  IF last.op = "Init" /\ last.self = self /\ Ending(last) = ending
  THEN ending ELSE ""

\* property_get(key, value, default_value): the stored value, or the default
\* when the key is unset or empty.
property_get(key, default_value) ==
  IF properties[key] = "" THEN default_value ELSE properties[key]

\* Mutants of GetLibrary.
GetLibrary_NoDebuggableCheck(library) ==
  IF have_android_os
  THEN IF library = NullString
       THEN LocalBuffer(property_get(kLibrarySystemProperty, kLibraryFallback))
       ELSE library
  ELSE IF library = NullString THEN StaticString(kLibraryFallback) ELSE library

GetLibrary_PrefersProperty(library) ==
  IF have_android_os
  THEN IF property_get(kDebuggableSystemProperty, kDebuggableFallback) # "1"
       THEN StaticString(kLibraryFallback)
       ELSE LocalBuffer(property_get(kLibrarySystemProperty, kLibraryFallback))
  ELSE IF library = NullString THEN StaticString(kLibraryFallback) ELSE library

\* JniInvocation::GetLibrary.  With HAVE_ANDROID_OS the default is read into
\* the stack buffer default_library, and that buffer is what is returned when
\* the build is debuggable and no library was passed.
GetLibrary(library) ==
  IF have_android_os
  THEN IF property_get(kDebuggableSystemProperty, kDebuggableFallback) # "1"
       THEN StaticString(kLibraryFallback)
       ELSE IF library = NullString
            THEN LocalBuffer(property_get(kLibrarySystemProperty, kLibraryFallback))
            ELSE library
  ELSE IF library = NullString THEN StaticString(kLibraryFallback) ELSE library

\* What a read through a C string pointer can yield.  default_library is gone
\* once GetLibrary has returned: a read through a pointer to it is undefined
\* and yields what was there, the fallback's characters, or anything else.
ReadValues(p) ==
  IF p.storage = "local" THEN {p.name, kLibraryFallback, Garbage} ELSE {p.name}

\* dlopen, dlsym and dlclose, on the loader's records.  Of the file a handle
\* stands for, the record keeps whether it is libart.so.
dlopen(ls, name, ok) ==
  IF ok THEN Append(ls, [libart |-> (name = kLibraryFallback), closes |-> 0]) ELSE ls

dlsym(handle, symbol, found) ==
  IF found THEN [lib |-> handle, sym |-> symbol] ELSE NullFn

dlclose(ls, handle) == [ls EXCEPT ![handle].closes = @ + 1]

\* Mutant of FindSymbol: the failure path closes the handle and keeps it.
FindSymbol_KeepsHandle(obj, ls, slot, symbol, found) ==
  LET p == dlsym(obj.handle_, symbol, found)
      stored == [obj EXCEPT ![slot] = p]
  IN  IF p = NullFn
      THEN [obj |-> stored, libs |-> dlclose(ls, obj.handle_), ret |-> FALSE]
      ELSE [obj |-> stored, libs |-> ls, ret |-> TRUE]

\* Mutant of FindSymbol: a failed lookup is reported as a success.
FindSymbol_AlwaysTrue(obj, ls, slot, symbol, found) ==
  [obj |-> [obj EXCEPT ![slot] = dlsym(obj.handle_, symbol, found)],
   libs |-> ls, ret |-> TRUE]

\* Mutant of FindSymbol: the pointer found is not stored.
FindSymbol_NoStore(obj, ls, slot, symbol, found) ==
  IF dlsym(obj.handle_, symbol, found) = NullFn
  THEN [obj |-> [obj EXCEPT !.handle_ = NULL],
        libs |-> dlclose(ls, obj.handle_), ret |-> FALSE]
  ELSE [obj |-> obj, libs |-> ls, ret |-> TRUE]

\* JniInvocation::FindSymbol: *pointer = dlsym(handle_, symbol); on NULL the
\* handle is closed and cleared.
FindSymbol(obj, ls, slot, symbol, found) ==
  LET p == dlsym(obj.handle_, symbol, found)
      stored == [obj EXCEPT ![slot] = p]
  IN  IF p = NullFn
      THEN [obj |-> [stored EXCEPT !.handle_ = NULL],
            libs |-> dlclose(ls, obj.handle_), ret |-> FALSE]
      ELSE [obj |-> stored, libs |-> ls, ret |-> TRUE]

\* Mutant of FindSymbols: all three symbols are looked up, then the handle is
\* closed and cleared if one of them was missing.
FindSymbols_NoShortCircuit(obj, ls, found) ==
  LET h == obj.handle_
      all == [obj EXCEPT ![Slots[1]] = dlsym(h, Symbols[1], found[1]),
                         ![Slots[2]] = dlsym(h, Symbols[2], found[2]),
                         ![Slots[3]] = dlsym(h, Symbols[3], found[3])]
      ok == found[1] /\ found[2] /\ found[3]
  IN  [obj |-> IF ok THEN all ELSE [all EXCEPT !.handle_ = NULL],
       libs |-> IF ok THEN ls ELSE dlclose(ls, h), ret |-> ok,
       lookups |-> found, closed |-> IF ok THEN NULL ELSE h]

\* The three FindSymbol calls of Init, in order, stopping at the first failure.
\* lookups lists the lookups made, each with its outcome.
FindSymbols(obj, ls, found) ==
  LET r1 == FindSymbol(obj, ls, Slots[1], Symbols[1], found[1])
      r2 == FindSymbol(r1.obj, r1.libs, Slots[2], Symbols[2], found[2])
      r3 == FindSymbol(r2.obj, r2.libs, Slots[3], Symbols[3], found[3])
  IN  IF ~r1.ret THEN [obj |-> r1.obj, libs |-> r1.libs, ret |-> FALSE,
                       lookups |-> <<FALSE>>, closed |-> obj.handle_]
      ELSE IF ~r2.ret THEN [obj |-> r2.obj, libs |-> r2.libs, ret |-> FALSE,
                            lookups |-> <<TRUE, FALSE>>, closed |-> obj.handle_]
      ELSE IF ~r3.ret THEN [obj |-> r3.obj, libs |-> r3.libs, ret |-> FALSE,
                            lookups |-> <<TRUE, TRUE, FALSE>>,
                            closed |-> obj.handle_]
      ELSE [obj |-> r3.obj, libs |-> r3.libs, ret |-> TRUE,
            lookups |-> <<TRUE, TRUE, TRUE>>, closed |-> NULL]

\* Mutants of the fallback step of Init.
IsFallback_Never(name) == FALSE
FallbackName_Same(name) == name

\* strcmp(library, kLibraryFallback) == 0
IsFallback(name) == name = kLibraryFallback

\* library = kLibraryFallback, the name of the second dlopen
FallbackName(name) == kLibraryFallback

\* The calls Init makes only on some paths have an outcome only there: strcmp
\* reads the name only after a failed dlopen, and dlsym is called only on a
\* library that was opened.
ComparedValues(p, open1, read1) == IF open1 THEN {read1} ELSE ReadValues(p)
LookupsMade(opened) ==
  IF opened THEN LookupOutcomes ELSE {<<FALSE, FALSE, FALSE>>}

\* The handle a dlopen returns: the new record's index, or NULL.
Opened(ls, ok) == IF ok THEN Len(ls) + 1 ELSE NULL

\* JniInvocation::Init on object self with fields obj.  open1 and open2 are the
\* outcomes of the dlopen calls, found those of the dlsym calls, read1 and read2
\* what dlopen and strcmp read through library.
InitBody(obj, ls, self, library, open1, open2, found, read1, read2) ==
  LET lib == GetLibrary(library)
      obj1 == [obj EXCEPT !.handle_ = Opened(ls, open1)]
      ls1 == dlopen(ls, read1, open1)
      name2 == FallbackName(read2)
      obj2 == [obj EXCEPT !.handle_ = Opened(ls, open2)]
      ls2 == dlopen(ls, name2, open2)
      base == [NoCall EXCEPT !.op = "Init", !.self = self, !.requested = library,
                             !.resolved = lib, !.after = After(call, self, "Init false")]
  IN  IF obj1.handle_ = NULL
      THEN IF IsFallback(read2)
           THEN [obj |-> obj1, libs |-> ls1,
                 call |-> [base EXCEPT !.attempts = <<read1>>, !.opened = <<FALSE>>,
                                       !.compared = <<read2>>, !.ret = FALSE]]
           ELSE IF obj2.handle_ = NULL
                THEN [obj |-> obj2, libs |-> ls2,
                      call |-> [base EXCEPT !.attempts = <<read1, name2>>,
                                            !.opened = <<FALSE, FALSE>>,
                                            !.compared = <<read2>>, !.ret = FALSE]]
                ELSE LET r == FindSymbols(obj2, ls2, found)
                     IN  [obj |-> r.obj, libs |-> r.libs,
                          call |-> [base EXCEPT !.attempts = <<read1, name2>>,
                                                !.opened = <<FALSE, TRUE>>,
                                                !.compared = <<read2>>,
                                                !.lookups = r.lookups,
                                                !.closed = r.closed,
                                                !.ret = r.ret]]
      ELSE LET r == FindSymbols(obj1, ls1, found)
           IN  [obj |-> r.obj, libs |-> r.libs,
                call |-> [base EXCEPT !.attempts = <<read1>>, !.opened = <<TRUE>>,
                                      !.lookups = r.lookups,
                                      !.closed = r.closed, !.ret = r.ret]]

\* Mutants of the two fatal checks.
CtorFatal_Never(slot) == FALSE
GetFatal_Never(slot) == FALSE

\* The constructor's check: jni_invocation_ != NULL is fatal.
CtorFatal(slot) == slot # NULL

\* GetJniInvocation's check: jni_invocation_ == NULL is fatal.
GetFatal(slot) == slot = NULL

Store(debuggable, library) ==
  (kDebuggableSystemProperty :> debuggable) @@ (kLibrarySystemProperty :> library)

\* The state before main: a build, a property store (none off the device), no
\* object alive, nothing loaded.
Init ==
  /\ have_android_os \in BOOLEAN
  /\ \E d \in DebuggableValues, l \in LibraryValues :
       properties = IF have_android_os THEN Store(d, l) ELSE Store("", "")
  /\ proc = "running"
  /\ jni_invocation_ = NULL
  /\ live = {}
  /\ objects = [i \in Instances |-> NewObject]
  /\ libs = <<>>
  /\ call = NoCall

\* JniInvocation::JniInvocation: the members are initialised, then a slot that
\* is already taken is fatal, else the slot is set to this.
JniInvocationCtor ==
  /\ proc = "running"
  /\ \E self \in Instances \ live :
       /\ objects' = [objects EXCEPT ![self] = NewObject]
       /\ call' = [NoCall EXCEPT !.op = "JniInvocation", !.self = self,
                                 !.slot0 = jni_invocation_]
       /\ IF CtorFatal(jni_invocation_)
          THEN /\ proc' = "aborted"
               /\ UNCHANGED <<jni_invocation_, live>>
          ELSE /\ jni_invocation_' = self
               /\ live' = live \cup {self}
               /\ proc' = proc
  /\ UNCHANGED <<have_android_os, properties, libs>>

\* JniInvocation::~JniInvocation: the slot is cleared and a held handle closed.
\* The object's storage is gone afterwards.
JniInvocationDtor(self) ==
  /\ proc = "running"
  /\ self \in live
  /\ jni_invocation_' = NULL
  /\ libs' = IF objects[self].handle_ # NULL
             THEN dlclose(libs, objects[self].handle_)
             ELSE libs
  /\ live' = live \ {self}
  /\ objects' = [objects EXCEPT ![self] = NewObject]
  /\ call' = [NoCall EXCEPT !.op = "~JniInvocation", !.self = self,
                            !.slot0 = jni_invocation_,
                            !.closed = objects[self].handle_]
  /\ UNCHANGED <<have_android_os, properties, proc>>

\* The static JniInvocation::GetLibrary, called on its own.
GetLibraryCall(library) ==
  /\ proc = "running"
  /\ call' = [NoCall EXCEPT !.op = "GetLibrary", !.requested = library,
                            !.resolved = GetLibrary(library)]
  /\ UNCHANGED <<have_android_os, properties, proc, jni_invocation_, live, objects, libs>>

\* JniInvocation::Init on a live object.
JniInvocationInit(self, library) ==
  /\ proc = "running"
  /\ self \in live
  /\ Len(libs) < MaxHandles
  /\ \E open1 \in BOOLEAN, read1 \in ReadValues(GetLibrary(library)) :
       \E read2 \in ComparedValues(GetLibrary(library), open1, read1) :
         \E open2 \in SecondOpenOutcomes(open1 \/ IsFallback(read2)) :
           \E found \in LookupsMade(open1 \/ open2) :
         LET r == InitBody(objects[self], libs, self, library, open1, open2,
                           found, read1, read2)
         IN  /\ objects' = [objects EXCEPT ![self] = r.obj]
             /\ libs' = r.libs
             /\ call' = r.call
  /\ UNCHANGED <<have_android_os, properties, proc, jni_invocation_, live>>

\* JniInvocation::GetJniInvocation.
GetJniInvocation ==
  /\ proc = "running"
  /\ call' = [NoCall EXCEPT !.op = "GetJniInvocation",
                            !.slot0 = jni_invocation_,
                            !.self = IF GetFatal(jni_invocation_) THEN NULL
                                     ELSE jni_invocation_]
  /\ proc' = IF GetFatal(jni_invocation_) THEN "aborted" ELSE proc
  /\ UNCHANGED <<have_android_os, properties, jni_invocation_, live,
                 objects, libs>>

\* The field slot of the object at self; through a null object pointer there
\* is nothing to call.
Member(self, slot) == IF self \in Instances THEN objects[self][slot] ELSE NullFn

\* A call through a function pointer field.  Through NULL it crashes; through
\* a pointer into a library that was closed it is undefined: it may crash.
CallThrough(fn) ==
  IF fn = NullFn THEN {"crashed"}
  ELSE IF libs[fn.lib].closes > 0 THEN {"running", "crashed"}
  ELSE {"running"}

\* The parameters of the three functions, and the status a VM's function
\* can return.
Params ==
  <<<<"vmargs">>, <<"p_vm", "p_env", "vm_args">>, <<"vms", "size", "vm_count">>>>
StatusCodes == {"JNI_OK", "JNI_ERR"}

\* Mutant of Callee: every member function calls the first field.
Callee_First(k) == Slots[1]

\* The field member function k calls, the arguments it calls it with and the
\* value it returns: return JNI_CreateJavaVM_(p_vm, p_env, vm_args).
Callee(k) == Slots[k]
ForwardArgs(k, args) == args
ForwardStatus(status) == status

\* What a call of member function k on the object at self does: the pointer it
\* goes through, and when the call returns, what the callee was given, what it
\* returned and what the member function returns.
ForwardCall(op, self, k, outcome, r) ==
  [NoCall EXCEPT !.op = op, !.self = self, !.slot0 = jni_invocation_,
                 !.target = Member(self, Callee(k)),
                 !.after = After(call, self, "Init true by fallback"),
                 !.passed = IF outcome = "running"
                            THEN ForwardArgs(k, Params[k]) ELSE <<>>,
                 !.returned = IF outcome = "running" THEN r ELSE "",
                 !.status = IF outcome = "running" THEN ForwardStatus(r) ELSE ""]

Returns(outcome) == IF outcome = "running" THEN StatusCodes ELSE {""}

\* The member functions JNI_GetDefaultJavaVMInitArgs, JNI_CreateJavaVM and
\* JNI_GetCreatedJavaVMs.
Forward(self, k) ==
  /\ proc = "running"
  /\ self \in live
  /\ \E outcome \in CallThrough(Member(self, Callee(k))) :
       \E r \in Returns(outcome) :
         /\ proc' = outcome
         /\ call' = ForwardCall(Symbols[k], self, k, outcome, r)
  /\ UNCHANGED <<have_android_os, properties, jni_invocation_, live,
                 objects, libs>>

\* The extern "C" entry points: GetJniInvocation(), then the member function
\* of the same name.
EntryPoint(k) ==
  /\ proc = "running"
  /\ IF GetFatal(jni_invocation_)
     THEN /\ proc' = "aborted"
          /\ call' = [NoCall EXCEPT !.op = "extern " \o Symbols[k],
                                    !.slot0 = jni_invocation_]
     ELSE \E outcome \in CallThrough(Member(jni_invocation_, Callee(k))) :
            \E r \in Returns(outcome) :
              /\ proc' = outcome
              /\ call' = ForwardCall("extern " \o Symbols[k], jni_invocation_, k,
                                     outcome, r)
  /\ UNCHANGED <<have_android_os, properties, jni_invocation_, live,
                 objects, libs>>

Next ==
  \/ JniInvocationCtor
  \/ \E self \in Instances : JniInvocationDtor(self)
  \/ \E library \in Requests : GetLibraryCall(library)
  \/ \E self \in Instances, library \in Requests : JniInvocationInit(self, library)
  \/ GetJniInvocation
  \/ \E self \in Instances, k \in 1..3 : Forward(self, k)
  \/ \E k \in 1..3 : EntryPoint(k)

Spec == Init /\ [][Next]_vars

(***************************************************************************)
(* Properties.                                                             *)
(***************************************************************************)

\* The last operation ran GetLibrary: on its own, or as the first step of Init.
Resolved == call.op \in {"GetLibrary", "Init"}

Range(seq) == {seq[n] : n \in 1..Len(seq)}
AllNull(obj) == \A k \in 1..3 : obj[Slots[k]] = NullFn
AllSet(obj) == \A k \in 1..3 : obj[Slots[k]] # NullFn
Handles == 1..Len(libs)

\* C1: where ro.debuggable is read and is not "1" (set to something else, or
\* unset), GetLibrary returns the constant libart.so whatever library it is
\* given: NULL, "libart.so", "custom.so" or "".
C1_NonDebuggableIsFallback ==
  (Resolved /\ have_android_os /\ properties[kDebuggableSystemProperty] # "1")
    => call.resolved = StaticString(kLibraryFallback)

C1_Witness ==
  /\ call.op = "GetLibrary"
  /\ have_android_os
  /\ properties[kDebuggableSystemProperty] = "0"
  /\ call.requested = CallerString("custom.so")
  /\ call.resolved.name = "libart.so"

\* C2, as claimed: with no property store, or with ro.debuggable unset,
\* GetLibrary returns libart.so whatever library it is given.
C2_NoStoreOrUnsetIsFallback ==
  (Resolved /\ (~have_android_os \/ properties[kDebuggableSystemProperty] = ""))
    => call.resolved.name = kLibraryFallback

\* C2, amended: with the property store compiled in and ro.debuggable unset,
\* GetLibrary returns libart.so whatever library it is given; in a build
\* without the store it returns the library it is given, and libart.so only
\* when it is given NULL.
C2_UnsetIsFallbackNoStoreAccepts ==
  Resolved =>
    /\ (have_android_os /\ properties[kDebuggableSystemProperty] = "")
         => call.resolved = StaticString(kLibraryFallback)
    /\ ~have_android_os
         => call.resolved = IF call.requested = NullString
                            THEN StaticString(kLibraryFallback)
                            ELSE call.requested

C2_Witness ==
  /\ call.op = "Init"
  /\ have_android_os
  /\ properties[kDebuggableSystemProperty] = ""
  /\ call.requested = CallerString("custom.so")
  /\ call.resolved.name = "libart.so"
  /\ call.attempts[1] = "libart.so"

\* C3: the three function pointers of a live object are all null or all
\* non-null.
C3_AllOrNone ==
  \A self \in live : AllNull(objects[self]) \/ AllSet(objects[self])

\* C4: an Init whose dlopen succeeded and one of whose lookups failed returns
\* false, has closed the handle it opened and cleared handle_, and leaves all
\* three function pointers null.
C4_FailedLookupLeavesNothing ==
  (call.op = "Init" /\ TRUE \in Range(call.opened) /\ FALSE \in Range(call.lookups))
    => /\ ~call.ret
       /\ objects[call.self].handle_ = NULL
       /\ call.closed = Len(libs) /\ libs[Len(libs)].closes = 1
       /\ AllNull(objects[call.self])

C6_Singleton ==
  /\ Cardinality(live) <= 1
  /\ jni_invocation_ = NULL <=> live = {}
  /\ jni_invocation_ # NULL => live = {jni_invocation_}
  /\ (call.op = "JniInvocation" /\ call.slot0 # NULL)
       => proc = "aborted" /\ jni_invocation_ = call.slot0
  /\ (call.op = "JniInvocation" /\ call.slot0 = NULL)
       => proc = "running" /\ jni_invocation_ = call.self

C6_Witness ==
  /\ call.op = "JniInvocation"
  /\ call.slot0 # NULL
  /\ call.self # call.slot0
  /\ proc = "aborted"
  /\ live = {call.slot0}

GetOps ==
  {"GetJniInvocation"} \cup {"extern " \o Symbols[k] : k \in 1..3}

\* C7: GetJniInvocation, called on its own or by one of the three extern "C"
\* entry points, ends the process when no object is alive and otherwise
\* yields the one object that is.
C7_GetJniInvocation ==
  [][call'.op \in GetOps =>
       IF live = {}
       THEN proc' = "aborted" /\ call'.self = NULL /\ call'.target = NullFn
       ELSE /\ live = {call'.self}
            /\ proc' # "aborted"
            /\ call'.op = "GetJniInvocation" => proc' = "running"]_vars

\* An object was alive and loaded a library, it was destroyed, and then
\* GetJniInvocation was called.
C7_Witness ==
  /\ call.op = "GetJniInvocation"
  /\ proc = "aborted"
  /\ live = {}
  /\ Len(libs) > 0

\* C8: no handle is closed twice.
C8_NoDoubleClose == \A h \in Handles : libs[h].closes <= 1

\* The destructor ran with handle_ null after a failed lookup had closed the
\* one handle that was opened.
C8_Witness ==
  /\ call.op = "~JniInvocation"
  /\ call.closed = NULL
  /\ Len(libs) = 1
  /\ libs[1].closes = 1

\* C9: once the object is destroyed, every handle a dlopen returned to it has
\* been closed.
C9_NoLeakAfterDestruction ==
  live = {} => \A h \in Handles : libs[h].closes >= 1

\* C10: where ro.debuggable is "1" and a library is given, GetLibrary returns
\* that very library, whatever persist.sys.dalvik.vm.lib.2 holds.
C10_DebuggableAcceptsRequested ==
  (Resolved /\ have_android_os /\ properties[kDebuggableSystemProperty] = "1"
   /\ call.requested # NullString)
    => call.resolved = call.requested

C10_Witness ==
  /\ call.op = "GetLibrary"
  /\ have_android_os
  /\ properties[kDebuggableSystemProperty] = "1"
  /\ properties[kLibrarySystemProperty] = "libfoo.so"
  /\ call.requested = CallerString("custom.so")
  /\ call.resolved = CallerString("custom.so")

\* ro.debuggable is read and is "1".
Debuggable == have_android_os /\ properties[kDebuggableSystemProperty] = "1"

\* C11: where ro.debuggable is "1" and no library is given, the name Init has
\* from GetLibrary, the one its dlopen is given, is the value of
\* persist.sys.dalvik.vm.lib.2, or libart.so when that is unset.
C11_DebuggableDefaultIsPreferred ==
  (call.op = "Init" /\ Debuggable /\ call.requested = NullString)
    => call.attempts[1] =
         IF properties[kLibrarySystemProperty] = "" THEN "libart.so"
         ELSE properties[kLibrarySystemProperty]

\* C12: the name GetLibrary returns is never empty.
C12_NeverEmpty == Resolved => call.resolved.name # ""

\* C14: an Init whose first dlopen was given libart.so and failed has made that
\* one dlopen call only, and returns false.
C14_FallbackFailsOnce ==
  (call.op = "Init" /\ call.attempts[1] = kLibraryFallback /\ ~call.opened[1])
    => Len(call.attempts) = 1 /\ ~call.ret

\* C16: a non-null function pointer of a live object points into the library
\* the object holds open.
C16_PointersIntoHeldLibrary ==
  \A self \in live : \A k \in 1..3 :
    objects[self][Slots[k]] # NullFn
      => /\ objects[self][Slots[k]].lib = objects[self].handle_
         /\ libs[objects[self][Slots[k]].lib].closes = 0

\* C19: the pointer Init has from GetLibrary, which it hands to dlopen and to
\* strcmp, never points to GetLibrary's own buffer default_library.
C19_LibraryStorageIsLive ==
  call.op = "Init" => call.resolved.storage \in {"caller", "static"}

\* The object at self holds an open handle, and its field k points at symbol k
\* of that handle's library.
ResolvedFromHandle(self) ==
  /\ objects[self].handle_ # NULL
  /\ \A k \in 1..3 :
       objects[self][Slots[k]] =
         [lib |-> objects[self].handle_, sym |-> Symbols[k]]

HoldsFallback(self) ==
  /\ ResolvedFromHandle(self)
  /\ libs[objects[self].handle_].libart
  /\ libs[objects[self].handle_].closes = 0

ForwardOps(k) == {Symbols[k], "extern " \o Symbols[k]}

C13_Load ==
  (call.op = "Init" /\ call.opened = <<FALSE, TRUE>>
     /\ call.lookups = <<TRUE, TRUE, TRUE>>)
    => /\ call.ret
       /\ call.attempts[2] = "libart.so"
       /\ HoldsFallback(call.self)
       /\ objects[call.self].handle_ = Len(libs)

C13_Dispatch ==
  \A k \in 1..3 :
    (call'.op \in ForwardOps(k) /\ call'.self # NULL /\ HoldsFallback(call'.self))
      => /\ proc' = "running"
         /\ call'.target =
              [lib |-> objects[call'.self].handle_, sym |-> Symbols[k]]
         /\ call'.passed = Params[k]
         /\ call'.returned \in StatusCodes
         /\ call'.status = call'.returned

\* C13: an Init whose first dlopen fails, whose dlopen of libart.so succeeds
\* and whose three lookups succeed returns true and leaves the three fields
\* pointing at the three symbols of that libart.so; and each member function
\* and extern "C" entry point called on an object in that condition calls the
\* symbol of its own name there with its own parameters and returns what the
\* symbol returned.
C13_FallbackLoadForwards == [](C13_Load) /\ [][C13_Dispatch]_vars

C13_Witness ==
  /\ call.op = "extern JNI_CreateJavaVM"
  /\ call.after = "Init true by fallback"
  /\ call.target = [lib |-> objects[call.self].handle_, sym |-> "JNI_CreateJavaVM"]
  /\ libs[call.target.lib].libart
  /\ call.passed = <<"p_vm", "p_env", "vm_args">>
  /\ call.status = "JNI_ERR"

C15_Step ==
  call'.op = "Init" =>
    LET self == call'.self
        n == Len(call'.lookups)
        opens == call'.opened
        h == Len(libs')
    IN  /\ n > 0 <=> opens[Len(opens)]
        /\ n > 0 => Len(libs') = Len(libs) + 1
        /\ \A k \in 1..3 :
             objects'[self][Slots[k]] =
               IF k > n THEN objects[self][Slots[k]]
               ELSE IF call'.lookups[k] THEN [lib |-> h, sym |-> Symbols[k]]
               ELSE NullFn
        /\ \A k \in 1..n : k < n => call'.lookups[k]
        /\ (n > 0 /\ n < 3) => ~call'.lookups[n]
        /\ (n > 0 /\ ~call'.lookups[n])
             => /\ ~call'.ret
                /\ objects'[self].handle_ = NULL
                /\ call'.closed = h
                /\ libs'[h].closes = 1

\* C15: Init looks symbols up only in a library it has just opened, in the
\* order JNI_GetDefaultJavaVMInitArgs, JNI_CreateJavaVM,
\* JNI_GetCreatedJavaVMs, each into its own field; a failed lookup is the last
\* one, the fields of the symbols after it are left as they were, the handle
\* is closed once and cleared, and Init returns false.
C15_OrderedShortCircuit == [][C15_Step]_vars

C15_Witness ==
  /\ call.op = "Init"
  /\ call.lookups = <<TRUE, FALSE>>
  /\ call.closed = 2
  /\ libs[2].closes = 1
  /\ objects[call.self].handle_ = NULL
  /\ objects[call.self].JNI_GetCreatedJavaVMs_ =
       [lib |-> 1, sym |-> "JNI_GetCreatedJavaVMs"]

\* C17: after any Init, first or repeated, the value returned is true exactly
\* when handle_ is not NULL and the three fields point at the three symbols of
\* that handle; and when it is false handle_ is NULL.
C17_ReturnMatchesState ==
  call.op = "Init"
    => /\ call.ret <=> ResolvedFromHandle(call.self)
       /\ ~call.ret => objects[call.self].handle_ = NULL

\* A second Init of the same object returns true: the first handle is still
\* open, which only an Init over a loaded object leaves behind.
C17_Witness ==
  /\ call.op = "Init"
  /\ call.ret
  /\ objects[call.self].handle_ = 2
  /\ libs[1].closes = 0
  /\ ResolvedFromHandle(call.self)

\* C18: an Init that follows an Init of the same object that returned false,
\* and whose dlopen and three lookups succeed, returns true and leaves handle_
\* at the library just opened, open, with the three fields pointing at its
\* three symbols.
C18_RecoversAfterFailure ==
  (call.op = "Init" /\ call.after = "Init false"
     /\ call.opened[Len(call.opened)] /\ call.lookups = <<TRUE, TRUE, TRUE>>)
    => /\ call.ret
       /\ objects[call.self].handle_ = Len(libs)
       /\ libs[Len(libs)].closes = 0
       /\ ResolvedFromHandle(call.self)

\* The failure before was a missing symbol: the first handle was closed.
C18_Witness ==
  /\ call.op = "Init"
  /\ call.after = "Init false"
  /\ call.ret
  /\ libs[1].closes = 1
  /\ objects[call.self].handle_ = 2
  /\ ResolvedFromHandle(call.self)

====
